---- MODULE Spec2Model ----
(***************************************************************************)
(* Authorization and session store of the Variant analytics dashboard      *)
(* (app/auth.py, app/dashboards/admin_panel/services.py, app/config.py,    *)
(* app/shared/filters.py).                                                 *)
(*                                                                         *)
(* Python values are encoded as follows.                                   *)
(*   None                  the record None                                 *)
(*   a dict with str keys  a function whose domain is a set of strings     *)
(*   dashboards            DashAll for the string "all", DashList(l) for   *)
(*                         the list l                                      *)
(*   a str argument that   the string NoneStr (falsy, like None and "")    *)
(*   may be None                                                           *)
(*   datetime              a number of seconds (the model's clock)         *)
(* json.dumps followed by json.loads returns an equal value for every      *)
(* value stored here (str keys, str / bool / list / dict / number values), *)
(* so a blob holds the value that was uploaded; what the round trip loses  *)
(* is object identity, which the directory model tracks in "sh".           *)
(***************************************************************************)
EXTENDS Integers, Sequences, FiniteSets, TLC

VARIABLES
    clock,            \* datetime.now(): seconds since the process started
    ticks,            \* how many times the clock was advanced between calls
    memory_sessions,  \* auth._memory_sessions
    gcs_sessions,     \* the blobs cache/sessions/<id>.json
    issued,           \* the session ids generate_session_id has returned
    logouts,          \* per session id, how many logout calls were made (max 2)
    users_cache,      \* auth._users_cache: [data, loaded_at]
    shared,           \* the keys of _users_cache["data"] whose record is the
                      \* very object DEFAULT_USERS holds (DEFAULT_USERS.copy()
                      \* is a shallow copy)
    default_users,    \* config.DEFAULT_USERS, whose records are mutable
    gcs_users,        \* the blob cache/users.json, None while it is absent
    upd,              \* the directory object last passed to update_users_db
    peer_cache,       \* auth._users_cache of a second process on the same store
    peer_users,       \* the dict a handler of that process is about to pass
                      \* to update_users_db, None between handlers
    gcs_configured,   \* auth.GCS_BUCKET_NAME is not empty
    local_audit_log,  \* services._local_audit_log
    gcs_audit_log,    \* the blob cache/audit_log.json, None while it is absent
    logged,           \* every entry log_audit_action has built, in call order
    request,          \* the user, dashboard id and plan groups of the page
                      \* being rendered
    ret               \* the last call: its name, argument and return value

sessVars == <<memory_sessions, gcs_sessions, issued, logouts>>
peerVars == <<peer_cache, peer_users>>
dirVars == <<users_cache, shared, default_users, gcs_users, upd, peerVars>>
auditVars == <<local_audit_log, gcs_audit_log, logged>>
vars == <<clock, ticks, gcs_configured, request, sessVars, dirVars, auditVars, ret>>

None == [none |-> TRUE]
NoneStr == "<None>"

\* -------------------------------------------------------------------------
\* config.py
\* -------------------------------------------------------------------------
SESSION_TTL_DEFAULT == 86400
SESSION_TTL_REMEMBER == 2592000

DashAll == [all |-> TRUE, ids |-> <<>>]
DashList(l) == [all |-> FALSE, ids |-> l]
EmptyDict == [k \in {} |-> <<>>]

DEFAULT_USERS ==
    [u \in {"admin", "viewer"} |->
        IF u = "admin"
        THEN [password |-> "admin123", role |-> "super_admin",
              name |-> "Administrator", dashboards |-> DashAll,
              app_access |-> EmptyDict]
        ELSE [password |-> "viewer123", role |-> "readonly",
              name |-> "Viewer User",
              dashboards |-> DashList(<<"icarus_historical">>),
              app_access |-> EmptyDict]]

\* -------------------------------------------------------------------------
\* Bounds of the model
\* -------------------------------------------------------------------------
MaxTicks == 3
\* The longest audit log a run builds.
MaxAudit == 2
MaxLogged == 4
\* The calls made beyond the cap of the audit log.
MaxOverCap == 2
\* The session ids generate_session_id can return.
SessionIds == {"s1"}
\* Seconds the clock may have advanced between two datetime.now() calls of
\* one handler.
ClockSkews == {0, 1}
\* get_gcs_bucket() and the blob call that follows it: the bucket is there
\* and the call succeeds ("ok"), get_gcs_bucket returns None ("nobucket":
\* no bucket name, or its own except branch), or the blob call raises
\* inside the try block ("error"). With no bucket name every call finds no
\* bucket. Flaky are the outcomes of one call when the store may fail at
\* any call, Steady when a configured store answers every call.
Flaky == IF gcs_configured THEN {"ok", "nobucket", "error"} ELSE {"nobucket"}
Steady == IF gcs_configured THEN {"ok"} ELSE {"nobucket"}

\* dict helpers
Has(d, k) == k \in DOMAIN d
DictSet(d, k, v) == [x \in DOMAIN d \cup {k} |-> IF x = k THEN v ELSE d[x]]
DictDel(d, k) == [x \in DOMAIN d \ {k} |-> d[x]]
DictGet(d, k, dflt) == IF k \in DOMAIN d THEN d[k] ELSE dflt
\* list(d.keys()), for the dicts of at most one key built here
KeysOf(d) == IF DOMAIN d = {} THEN <<>> ELSE <<CHOOSE k \in DOMAIN d : TRUE>>

\* -------------------------------------------------------------------------
\* auth.py: session storage
\* -------------------------------------------------------------------------
\* delete_session_from_gcs(session_id)
delete_session_from_gcs(mem, gcs, session_id, io) ==
    CASE io = "nobucket" ->
            [mem |-> IF Has(mem, session_id) THEN DictDel(mem, session_id) ELSE mem,
             gcs |-> gcs, val |-> TRUE]
      [] io = "ok" ->
            [mem |-> mem,
             gcs |-> IF Has(gcs, session_id) THEN DictDel(gcs, session_id) ELSE gcs,
             val |-> TRUE]
      [] OTHER -> [mem |-> mem, gcs |-> gcs, val |-> FALSE]

\* save_session_to_gcs(session_id, data)
save_session_to_gcs(mem, gcs, session_id, data, io) ==
    CASE io = "nobucket" ->
            [mem |-> DictSet(mem, session_id, data), gcs |-> gcs, val |-> TRUE]
      [] io = "ok" ->
            [mem |-> mem, gcs |-> DictSet(gcs, session_id, data), val |-> TRUE]
      [] OTHER -> [mem |-> mem, gcs |-> gcs, val |-> FALSE]

\* The expiry test with a session ending at expires_at itself.
ExpiredAtDeadline(data, now) == Has(data, "expires_at") /\ now >= data.expires_at

\* The expiry test of load_session_from_gcs, the same in both branches.
Expired(data, now) == Has(data, "expires_at") /\ now > data.expires_at

\* load_session_from_gcs(session_id): io is the outcome of its own bucket
\* and blob calls, ioDel that of the nested delete_session_from_gcs.
load_session_from_gcs(mem, gcs, session_id, now, io, ioDel) ==
    LET store == IF io = "nobucket" THEN mem ELSE gcs
    IN  IF io = "error" \/ ~Has(store, session_id)
        THEN [mem |-> mem, gcs |-> gcs, val |-> None]
        ELSE IF Expired(store[session_id], now)
             THEN [delete_session_from_gcs(mem, gcs, session_id, ioDel)
                      EXCEPT !.val = None]
             ELSE [mem |-> mem, gcs |-> gcs, val |-> store[session_id]]

\* get_session_data(session_id); session ids of the model are never empty.
get_session_data(mem, gcs, session_id, now, io, ioDel) ==
    load_session_from_gcs(mem, gcs, session_id, now, io, ioDel)

\* is_authenticated(session_id)
is_authenticated(mem, gcs, session_id, now, io, ioDel) ==
    LET s == get_session_data(mem, gcs, session_id, now, io, ioDel)
    IN  [s EXCEPT !.val = (s.val # None /\ DictGet(s.val, "authenticated", FALSE))]

\* get_current_user reading the directory record instead of the snapshot.
get_current_user_live(mem, gcs, session_id, now, io, ioDel) ==
    LET s == get_session_data(mem, gcs, session_id, now, io, ioDel)
        snap == DictGet(s.val, "user", None)
        rec == users_cache.data[snap.username]
    IN  [s EXCEPT !.val = IF s.val = None \/ snap = None THEN None
                          ELSE IF users_cache.data # None
                                  /\ Has(users_cache.data, snap.username)
                               THEN [username |-> snap.username, role |-> rec.role,
                                     name |-> rec.name, dashboards |-> rec.dashboards,
                                     app_access |-> DictGet(rec, "app_access", EmptyDict)]
                               ELSE None]

\* get_current_user(session_id)
get_current_user(mem, gcs, session_id, now, io, ioDel) ==
    LET s == get_session_data(mem, gcs, session_id, now, io, ioDel)
    IN  [s EXCEPT !.val = IF s.val # None THEN DictGet(s.val, "user", None) ELSE None]

\* The record create_session builds: expires_at from the first
\* datetime.now(timezone.utc), created_at from the second.
SessionData(session_id, user_data, remember_me, now1, now2) ==
    LET ttl == IF remember_me THEN SESSION_TTL_REMEMBER ELSE SESSION_TTL_DEFAULT
    IN  [session_id |-> session_id,
         user |-> user_data,
         authenticated |-> TRUE,
         created_at |-> now2,
         expires_at |-> now1 + ttl,
         remember_me |-> remember_me]

\* The user snapshot authenticate takes of a directory record.
UserData(users, username) ==
    [username |-> username,
     role |-> users[username].role,
     name |-> users[username].name,
     dashboards |-> users[username].dashboards,
     app_access |-> DictGet(users[username], "app_access", EmptyDict)]

\* -------------------------------------------------------------------------
\* Session handlers as actions
\* -------------------------------------------------------------------------
Stored(session_id) == Has(memory_sessions, session_id) \/ Has(gcs_sessions, session_id)

\* create_session(user_data, remember_me): generate_session_id returns an
\* id that was never returned before (uuid4).
CreateSession(session_id, user_data, remember_me, skew, io) ==
    /\ session_id \notin issued
    /\ LET data == SessionData(session_id, user_data, remember_me, clock, clock + skew)
           s == save_session_to_gcs(memory_sessions, gcs_sessions, session_id, data, io)
       IN  /\ memory_sessions' = s.mem
           /\ gcs_sessions' = s.gcs
           /\ ret' = [op |-> "create_session", arg |-> session_id,
                      val |-> data.expires_at, pre |-> None]
    /\ issued' = issued \cup {session_id}
    /\ clock' = clock + skew
    /\ UNCHANGED <<ticks, logouts, gcs_configured, request, dirVars, auditVars>>

\* get_session_data(session_id); ret.pre records whether a stored record of
\* the id was past its expires_at when the call was made.
GetSessionData(session_id, io, ioDel) ==
    LET s == get_session_data(memory_sessions, gcs_sessions, session_id, clock, io, ioDel)
        rec == IF Has(gcs_sessions, session_id) THEN gcs_sessions[session_id]
               ELSE memory_sessions[session_id]
    IN  /\ memory_sessions' = s.mem
        /\ gcs_sessions' = s.gcs
        /\ ret' = [op |-> "get_session_data", arg |-> session_id, val |-> s.val,
                   pre |-> (Stored(session_id) /\ Expired(rec, clock))]
        /\ UNCHANGED <<clock, ticks, issued, logouts, gcs_configured, request, dirVars, auditVars>>

\* What a session read found when it was called: the outcome of its store
\* calls, both stores and the time.
Before(io) == [io |-> io, mem |-> memory_sessions, gcs |-> gcs_sessions, now |-> clock]

\* is_authenticated(session_id)
IsAuthenticated(session_id, io, ioDel) ==
    LET s == is_authenticated(memory_sessions, gcs_sessions, session_id, clock, io, ioDel)
    IN  /\ memory_sessions' = s.mem
        /\ gcs_sessions' = s.gcs
        /\ ret' = [op |-> "is_authenticated", arg |-> session_id, val |-> s.val,
                   pre |-> Before(io)]
        /\ UNCHANGED <<clock, ticks, issued, logouts, gcs_configured, request, dirVars, auditVars>>

\* logout(session_id)
Logout(session_id, io) ==
    LET s == delete_session_from_gcs(memory_sessions, gcs_sessions, session_id, io)
    IN  /\ memory_sessions' = s.mem
        /\ gcs_sessions' = s.gcs
        /\ logouts' = [logouts EXCEPT ![session_id] = IF @ < 2 THEN @ + 1 ELSE @]
        /\ ret' = [op |-> "logout", arg |-> session_id, val |-> None, pre |-> None]
        /\ UNCHANGED <<clock, ticks, issued, gcs_configured, request, dirVars, auditVars>>

\* Time passing between two calls.
Tick(d) ==
    /\ ticks < MaxTicks
    /\ clock' = clock + d
    /\ ticks' = ticks + 1
    /\ UNCHANGED <<gcs_configured, request, sessVars, dirVars, auditVars, ret>>


\* -------------------------------------------------------------------------
\* auth.py: user directory
\* -------------------------------------------------------------------------
\* The age in seconds under which get_users_db serves _users_cache.
USERS_CACHE_SECONDS == 300

Roles == {"super_admin", "admin", "readonly"}
At(t) == [t |-> t]
Truthy(s) == s # NoneStr

\* load_users_from_gcs(): the blob's content, or None when there is no
\* bucket, no blob, or the download raises.
load_users_from_gcs(gcs, io) == IF io = "ok" THEN gcs ELSE None

save_users_to_gcs_merge(gcs, users, io) ==
    IF io = "ok"
    THEN IF gcs = None THEN users
         ELSE [k \in DOMAIN gcs \cup DOMAIN users |->
                  IF k \in DOMAIN users THEN users[k] ELSE gcs[k]]
    ELSE gcs

\* save_users_to_gcs(users): the blob afterwards.
save_users_to_gcs(gcs, users, io) == IF io = "ok" THEN users ELSE gcs

\* The test "data is not None and loaded_at is not None and age < 300".
CacheFreshLate(cache, now) ==
    /\ cache.data # None
    /\ cache.loaded_at # None
    /\ now - cache.loaded_at.t <= USERS_CACHE_SECONDS

CacheFresh(cache, now) ==
    /\ cache.data # None
    /\ cache.loaded_at # None
    /\ now - cache.loaded_at.t < USERS_CACHE_SECONDS

\* get_users_db(): val is the dict returned, which is always the object
\* _users_cache["data"] holds afterwards; sh are its keys whose records are
\* DEFAULT_USERS' own; loads and saves count the load_users_from_gcs and
\* save_users_to_gcs calls made.
get_users_db(cache, sh, defs, gcs, now, ioLoad, ioSeed) ==
    IF CacheFresh(cache, now)
    THEN [val |-> cache.data, cache |-> cache, sh |-> sh, gcs |-> gcs,
          loads |-> 0, saves |-> 0]
    ELSE LET users == load_users_from_gcs(gcs, ioLoad)
         IN  IF users # None
             THEN [val |-> users,
                   cache |-> [data |-> users, loaded_at |-> At(now)],
                   sh |-> {}, gcs |-> gcs, loads |-> 1, saves |-> 0]
             ELSE [val |-> defs,
                   cache |-> [data |-> defs, loaded_at |-> At(now)],
                   sh |-> DOMAIN defs,
                   gcs |-> save_users_to_gcs(gcs, defs, ioSeed),
                   loads |-> 1, saves |-> 1]

\* update_users_db(users) without the assignment to "loaded_at".
update_users_db_unstamped(users, gcs, now, io) ==
    [cache |-> [data |-> users, loaded_at |-> None],
     gcs |-> save_users_to_gcs(gcs, users, io)]

\* update_users_db(users)
update_users_db(users, gcs, now, io) ==
    [cache |-> [data |-> users, loaded_at |-> At(now)],
     gcs |-> save_users_to_gcs(gcs, users, io)]

\* invalidate_users_cache()
invalidate_users_cache == [data |-> None, loaded_at |-> None]

\* A dict of user records as a Python object: D.data its content, D.sh the
\* keys whose record object is shared with DEFAULT_USERS, D.defs
\* DEFAULT_USERS itself.
\* users[u][field] = ... on an existing record: seen through every dict
\* that holds the record.
SetUser(D, u, rec) ==
    [data |-> DictSet(D.data, u, rec), sh |-> D.sh,
     defs |-> IF u \in D.sh THEN DictSet(D.defs, u, rec) ELSE D.defs]
\* users[u] = {...}: a new record object under u.
NewUser(D, u, rec) ==
    [data |-> DictSet(D.data, u, rec), sh |-> D.sh \ {u}, defs |-> D.defs]
\* del users[u]
DelUser(D, u) ==
    [data |-> DictDel(D.data, u), sh |-> D.sh \ {u}, defs |-> D.defs]

\* The record add_user stores.
AddedRecord(password, role, name, dashboards, app_access) ==
    [password |-> password,
     role |-> role,
     name |-> name,
     dashboards |-> IF role = "readonly" THEN dashboards ELSE DashAll,
     app_access |-> IF app_access # None /\ DOMAIN app_access # {} /\ role = "readonly"
                    THEN app_access ELSE EmptyDict]

\* add_user(user_id, password, role, name, dashboards, app_access) on the
\* dict D that get_users_db returned: upd tells whether update_users_db(D)
\* is called.
add_user(D, user_id, password, role, name, dashboards, app_access) ==
    IF Has(D.data, user_id)
    THEN [ok |-> FALSE, msg |-> "User ID already exists", D |-> D, upd |-> FALSE]
    ELSE IF role = "super_admin"
    THEN [ok |-> FALSE, msg |-> "Cannot create Super Admin users", D |-> D, upd |-> FALSE]
    ELSE [ok |-> TRUE, msg |-> "User created successfully",
          D |-> NewUser(D, user_id,
                        AddedRecord(password, role, name, dashboards, app_access)),
          upd |-> TRUE]

UpdatedRecord_keep(r0, password, role, name, dashboards, app_access) ==
    LET r1 == IF Truthy(password) THEN DictSet(r0, "password", password) ELSE r0
        r2 == IF Truthy(role) THEN DictSet(r1, "role", role) ELSE r1
        r3 == IF Truthy(name) THEN DictSet(r2, "name", name) ELSE r2
        r4 == IF dashboards # None /\ r3.role = "readonly"
              THEN DictSet(r3, "dashboards", dashboards) ELSE r3
        r5 == IF app_access # None /\ r4.role = "readonly"
              THEN DictSet(r4, "app_access", app_access) ELSE r4
    IN  r5

\* The assignments update_user makes to users[user_id], in order.
UpdatedRecord(r0, password, role, name, dashboards, app_access) ==
    LET r1 == IF Truthy(password) THEN DictSet(r0, "password", password) ELSE r0
        r2 == IF Truthy(role)
              THEN IF role \in {"admin", "super_admin"}
                   THEN DictSet(DictSet(DictSet(r1, "role", role),
                                        "dashboards", DashAll),
                                "app_access", EmptyDict)
                   ELSE DictSet(r1, "role", role)
              ELSE r1
        r3 == IF Truthy(name) THEN DictSet(r2, "name", name) ELSE r2
        r4 == IF dashboards # None /\ r3.role = "readonly"
              THEN DictSet(r3, "dashboards", dashboards) ELSE r3
        r5 == IF app_access # None /\ r4.role = "readonly"
              THEN DictSet(r4, "app_access", app_access) ELSE r4
    IN  r5

\* update_user(user_id, password, role, name, dashboards, app_access)
update_user(D, user_id, password, role, name, dashboards, app_access) ==
    IF ~Has(D.data, user_id)
    THEN [ok |-> FALSE, msg |-> "User not found", D |-> D, upd |-> FALSE]
    ELSE [ok |-> TRUE, msg |-> "User updated successfully",
          D |-> SetUser(D, user_id,
                        UpdatedRecord(D.data[user_id], password, role, name,
                                      dashboards, app_access)),
          upd |-> TRUE]

\* delete_user(user_id)
delete_user(D, user_id) ==
    IF ~Has(D.data, user_id)
    THEN [ok |-> FALSE, msg |-> "User not found", D |-> D, upd |-> FALSE]
    ELSE IF D.data[user_id].role = "super_admin"
    THEN [ok |-> FALSE, msg |-> "Cannot delete Super Admin user", D |-> D, upd |-> FALSE]
    ELSE [ok |-> TRUE, msg |-> "User deleted successfully",
          D |-> DelUser(D, user_id), upd |-> TRUE]

\* -------------------------------------------------------------------------
\* admin_panel/services.py: audit log
\* -------------------------------------------------------------------------
\* "Keep only last 500 entries"
AUDIT_LOG_KEEP == 500

Blob(x) == [content |-> x]
LastN(l, n) == IF Len(l) > n THEN SubSeq(l, Len(l) - n + 1, Len(l)) ELSE l

\* get_audit_log(): val is the list returned, alias whether that list is
\* the object _local_audit_log itself.
get_audit_log(local, gcs, io) ==
    IF io = "ok"
    THEN [val |-> IF gcs = None THEN <<>> ELSE gcs.content, alias |-> FALSE]
    ELSE [val |-> local, alias |-> TRUE]

\* save_audit_log(log_entries)
save_audit_log(local, gcs, log_entries, io) ==
    IF io = "ok"
    THEN [local |-> local, gcs |-> Blob(log_entries), val |-> TRUE]
    ELSE [local |-> log_entries, gcs |-> gcs, val |-> (io = "nobucket")]

\* log_audit_action(actor_user_id, action, target_user_id, metadata):
\* append works in place, so it also grows _local_audit_log when
\* get_audit_log returned that list; the slice is a new list.
log_audit_action(local, gcs, actor_user_id, action, target_user_id, metadata, now, ioGet, ioPut) ==
    LET got == get_audit_log(local, gcs, ioGet)
        entry == [id |-> Len(got.val) + 1,
                  actor_user_id |-> actor_user_id,
                  action |-> action,
                  target_user_id |-> target_user_id,
                  timestamp |-> now,
                  metadata |-> IF metadata = None THEN EmptyDict ELSE metadata]
        appended == Append(got.val, entry)
        local1 == IF got.alias THEN appended ELSE local
        kept == LastN(appended, AUDIT_LOG_KEEP)
        saved == save_audit_log(local1, gcs, kept, ioPut)
    IN  [local |-> saved.local, gcs |-> saved.gcs, val |-> entry]

\* -------------------------------------------------------------------------
\* admin_panel/services.py: user management
\* -------------------------------------------------------------------------
\* count_active_super_admins(), on the dict its get_users_db call returns:
\* inside a handler that is the dict the handler already holds, the cache
\* having been served or loaded at the same clock reading.
count_active_super_admins(users) ==
    Cardinality({u \in DOMAIN users :
                    /\ DictGet(users[u], "role", NoneStr) = "super_admin"
                    /\ DictGet(users[u], "is_active", TRUE)})

NoLog == [none |-> TRUE]
LogOf(action, metadata) == [action |-> action, metadata |-> metadata]

\* The record create_user stores.
CreatedRecord(actor_user_id, password, role, name, dashboards, app_access, now) ==
    [password |-> password,
     role |-> role,
     name |-> name,
     dashboards |-> IF role = "readonly" THEN dashboards ELSE DashAll,
     app_access |-> IF app_access # None /\ DOMAIN app_access # {} /\ role = "readonly"
                    THEN app_access ELSE EmptyDict,
     is_active |-> TRUE,
     created_at |-> now,
     created_by |-> actor_user_id,
     updated_at |-> now,
     updated_by |-> actor_user_id,
     last_login |-> ""]

\* create_user(actor_user_id, user_id, password, role, name, dashboards,
\* app_access): log is the audit entry to write after update_users_db.
create_user(D, actor_user_id, user_id, password, role, name, dashboards, app_access, now) ==
    IF Has(D.data, user_id)
    THEN [ok |-> FALSE, msg |-> "User ID already exists", D |-> D, upd |-> FALSE,
          log |-> NoLog]
    ELSE IF role = "super_admin"
    THEN [ok |-> FALSE, msg |-> "Cannot create Super Admin users", D |-> D,
          upd |-> FALSE, log |-> NoLog]
    ELSE [ok |-> TRUE, msg |-> "User created successfully",
          D |-> NewUser(D, user_id,
                        CreatedRecord(actor_user_id, password, role, name,
                                      dashboards, app_access, now)),
          upd |-> TRUE,
          log |-> LogOf("CREATE_USER", [k \in {"role"} |-> role])]

\* "updated_at" and "updated_by" as the handlers stamp them.
Stamp(rec, actor_user_id, now) ==
    DictSet(DictSet(rec, "updated_at", now), "updated_by", actor_user_id)

\* edit_user after its permission checks: the assignments to
\* users[user_id] in order, with the "changes" dict they build. The
\* password is assigned before the last-super-admin test returns.
EditSteps(D, actor_user_id, user_id, password, role, name, dashboards, app_access, now) ==
    LET r0 == D.data[user_id]
        target_role == DictGet(r0, "role", NoneStr)
        pwChg == Truthy(password) /\ password # DictGet(r0, "password", NoneStr)
        r1 == IF pwChg THEN DictSet(r0, "password", password) ELSE r0
        c1 == IF pwChg THEN [k \in {"password"} |-> "changed"] ELSE EmptyDict
        roleChg == Truthy(role) /\ role # target_role
        lastSA == /\ roleChg
                  /\ target_role = "super_admin"
                  /\ count_active_super_admins(DictSet(D.data, user_id, r1)) <= 1
        r2 == IF roleChg
              THEN IF role \in {"admin", "super_admin"}
                   THEN DictSet(DictSet(DictSet(r1, "role", role),
                                        "dashboards", DashAll),
                                "app_access", EmptyDict)
                   ELSE DictSet(r1, "role", role)
              ELSE r1
        c2 == IF roleChg
              THEN DictSet(c1, "role", [from |-> target_role, to |-> role]) ELSE c1
        nameChg == Truthy(name) /\ name # DictGet(r2, "name", NoneStr)
        r3 == IF nameChg THEN DictSet(r2, "name", name) ELSE r2
        c3 == IF nameChg THEN DictSet(c2, "name", name) ELSE c2
        dashChg == dashboards # None /\ r3.role = "readonly"
        r4 == IF dashChg THEN DictSet(r3, "dashboards", dashboards) ELSE r3
        c4 == IF dashChg THEN DictSet(c3, "dashboards", "updated") ELSE c3
        appChg == app_access # None /\ r4.role = "readonly"
        r5 == IF appChg THEN DictSet(r4, "app_access", app_access) ELSE r4
        c5 == IF appChg THEN DictSet(c4, "app_access", "updated") ELSE c4
    IN  IF lastSA
        THEN [ok |-> FALSE, msg |-> "Cannot change role of last Super Admin",
              D |-> SetUser(D, user_id, r1), upd |-> FALSE, log |-> NoLog]
        ELSE [ok |-> TRUE, msg |-> "User updated successfully",
              D |-> SetUser(D, user_id, Stamp(r5, actor_user_id, now)),
              upd |-> TRUE,
              log |-> IF DOMAIN c5 # {} THEN LogOf("UPDATE_USER", c5) ELSE NoLog]

\* edit_user(actor_user_id, actor_role, user_id, password, role, name,
\* dashboards, app_access)
edit_user(D, actor_user_id, actor_role, user_id, password, role, name, dashboards, app_access, now) ==
    LET target_role == DictGet(D.data[user_id], "role", NoneStr)
        Fail(m) == [ok |-> FALSE, msg |-> m, D |-> D, upd |-> FALSE, log |-> NoLog]
    IN  IF ~Has(D.data, user_id) THEN Fail("User not found")
        ELSE IF target_role = "super_admin" /\ actor_user_id # user_id
        THEN Fail("Super Admin cannot be edited")
        ELSE IF actor_role = "admin" /\ target_role # "readonly"
        THEN Fail("You can only edit Read Only users")
        ELSE IF Truthy(role) /\ role # target_role /\ actor_role = "admin"
                /\ role # "readonly"
        THEN Fail("You can only assign Read Only role")
        ELSE IF Truthy(role) /\ role # target_role /\ role = "super_admin"
        THEN Fail("Cannot escalate to Super Admin")
        ELSE EditSteps(D, actor_user_id, user_id, password, role, name, dashboards,
                       app_access, now)

\* soft_delete_user without the test "actor_user_id == user_id".
soft_delete_user_self(D, actor_user_id, actor_role, user_id, now) ==
    LET Fail(m) == [ok |-> FALSE, msg |-> m, D |-> D, upd |-> FALSE, log |-> NoLog]
    IN  IF ~Has(D.data, user_id) THEN Fail("User not found")
        ELSE IF D.data[user_id].role = "super_admin"
        THEN Fail("Super Admin cannot be deleted")
        ELSE IF actor_role # "super_admin"
        THEN Fail("Only Super Admin can delete users")
        ELSE [ok |-> TRUE, msg |-> "User deleted successfully",
              D |-> SetUser(D, user_id,
                            Stamp(DictSet(D.data[user_id], "is_active", FALSE),
                                  actor_user_id, now)),
              upd |-> TRUE, log |-> LogOf("DELETE_USER", None)]

\* soft_delete_user(actor_user_id, actor_role, user_id)
soft_delete_user(D, actor_user_id, actor_role, user_id, now) ==
    LET Fail(m) == [ok |-> FALSE, msg |-> m, D |-> D, upd |-> FALSE, log |-> NoLog]
    IN  IF ~Has(D.data, user_id) THEN Fail("User not found")
        ELSE IF D.data[user_id].role = "super_admin"
        THEN Fail("Super Admin cannot be deleted")
        ELSE IF actor_role # "super_admin"
        THEN Fail("Only Super Admin can delete users")
        ELSE IF actor_user_id = user_id
        THEN Fail("Cannot delete yourself")
        ELSE [ok |-> TRUE, msg |-> "User deleted successfully",
              D |-> SetUser(D, user_id,
                            Stamp(DictSet(D.data[user_id], "is_active", FALSE),
                                  actor_user_id, now)),
              upd |-> TRUE, log |-> LogOf("DELETE_USER", None)]

\* toggle_user_status(actor_user_id, actor_role, user_id)
toggle_user_status(D, actor_user_id, actor_role, user_id, now) ==
    LET Fail(m) == [ok |-> FALSE, msg |-> m, D |-> D, upd |-> FALSE, log |-> NoLog]
        new_status == ~DictGet(D.data[user_id], "is_active", TRUE)
    IN  IF ~Has(D.data, user_id) THEN Fail("User not found")
        ELSE IF D.data[user_id].role = "super_admin"
        THEN Fail("Super Admin status cannot be changed")
        ELSE IF actor_role # "super_admin"
        THEN Fail("Only Super Admin can change user status")
        ELSE [ok |-> TRUE,
              msg |-> IF new_status THEN "User enabled successfully"
                      ELSE "User disabled successfully",
              D |-> SetUser(D, user_id,
                            Stamp(DictSet(D.data[user_id], "is_active", new_status),
                                  actor_user_id, now)),
              upd |-> TRUE,
              log |-> LogOf(IF new_status THEN "ENABLE_USER" ELSE "DISABLE_USER", None)]

\* -------------------------------------------------------------------------
\* auth.py: app access, shared/filters.py: plan groups
\* -------------------------------------------------------------------------
\* A list of app names as a return value, which may also be None.
Apps(l) == [apps |-> l]
Range(l) == {l[i] : i \in 1..Len(l)}

\* get_user_allowed_apps(user, dashboard_id) answering [] for a dashboard
\* that app_access does not name.
get_user_allowed_apps_strict(user, dashboard_id) ==
    IF user = None \/ user = EmptyDict THEN Apps(<<>>)
    ELSE LET role == DictGet(user, "role", "readonly")
             app_access == DictGet(user, "app_access", EmptyDict)
         IN  IF role \in {"admin", "super_admin"} THEN None
             ELSE IF app_access = None \/ app_access = EmptyDict THEN None
             ELSE Apps(DictGet(app_access, dashboard_id, <<>>))

\* get_user_allowed_apps(user, dashboard_id)
get_user_allowed_apps(user, dashboard_id) ==
    IF user = None \/ user = EmptyDict THEN Apps(<<>>)
    ELSE LET role == DictGet(user, "role", "readonly")
             app_access == DictGet(user, "app_access", EmptyDict)
         IN  IF role \in {"admin", "super_admin"} THEN None
             ELSE IF app_access = None \/ app_access = EmptyDict THEN None
             ELSE IF ~Has(app_access, dashboard_id) THEN None
             ELSE Apps(DictGet(app_access, dashboard_id, <<>>))

\* The list comprehension "i for i in range(n) if App_Name[i] in allowed_apps"
\* (indices from 1 here).
RECURSIVE filtered_indices(_, _, _)
filtered_indices(app_names, allowed, i) ==
    IF i > Len(app_names) THEN <<>>
    ELSE (IF app_names[i] \in Range(allowed) THEN <<i>> ELSE <<>>)
            \o filtered_indices(app_names, allowed, i + 1)

\* filter_plan_groups_by_apps(plan_groups, allowed_apps)
filter_plan_groups_by_apps(plan_groups, allowed_apps) ==
    IF allowed_apps = None THEN plan_groups
    ELSE LET idx == filtered_indices(plan_groups.App_Name, allowed_apps.apps, 1)
         IN  [App_Name |-> [k \in 1..Len(idx) |-> plan_groups.App_Name[idx[k]]],
              Plan_Name |-> [k \in 1..Len(idx) |-> plan_groups.Plan_Name[idx[k]]]]

NoRequest ==
    [user |-> None, dashboard_id |-> NoneStr,
     plan_groups |-> [App_Name |-> <<>>, Plan_Name |-> <<>>]]

\* get_user_allowed_apps(user, dashboard_id) for the page's user
GetUserAllowedApps ==
    /\ request # NoRequest
    /\ ret' = [op |-> "get_user_allowed_apps", arg |-> request.dashboard_id,
               val |-> get_user_allowed_apps(request.user, request.dashboard_id),
               pre |-> None]
    /\ UNCHANGED <<clock, ticks, gcs_configured, request, sessVars, dirVars, auditVars>>

\* filter_plan_groups_by_apps(plan_groups, allowed_apps), allowed_apps being
\* what get_user_allowed_apps returned for the page's user
FilterPlanGroupsByApps ==
    /\ request # NoRequest
    /\ LET allowed_apps == get_user_allowed_apps(request.user, request.dashboard_id)
       IN  ret' = [op |-> "filter_plan_groups_by_apps", arg |-> request.dashboard_id,
                   val |-> filter_plan_groups_by_apps(request.plan_groups, allowed_apps),
                   pre |-> allowed_apps]
    /\ UNCHANGED <<clock, ticks, gcs_configured, request, sessVars, dirVars, auditVars>>

\* -------------------------------------------------------------------------
\* Directory handlers as actions
\* -------------------------------------------------------------------------
NoUpd == [valid |-> FALSE]

\* The object d of the last update_users_db(d) call, followed through later
\* in-place changes: while _users_cache["data"] is still d (live) its
\* content is the cache's; afterwards only its records shared with
\* DEFAULT_USERS can still change.
UpdFollow(rebound, cache2, sh2, defs2) ==
    IF ~upd.valid THEN upd
    ELSE IF upd.live /\ ~rebound
    THEN [upd EXCEPT !.dir = cache2.data, !.sh = sh2]
    ELSE [upd EXCEPT !.live = FALSE,
                     !.dir = [u \in DOMAIN upd.dir |->
                                 IF u \in upd.sh THEN defs2[u] ELSE upd.dir[u]]]

\* The dict object get_users_db returned to a handler.
UsersOf(g) == [data |-> g.val, sh |-> g.sh, defs |-> default_users]

\* The state a directory handler leaves: g is what its get_users_db call
\* returned, r the handler's result on that dict. update_users_db runs only
\* when r.upd, and log_audit_action after it when log is an entry to write.
\* A handler that would make the audit log longer than MaxAudit is not
\* explored.
DirCommitAs(opname, arg, actor_user_id, g, r, log, ioSave, ioGet, ioPut, pre) ==
    LET u == update_users_db(r.D.data, g.gcs, clock, ioSave)
        cache2 == IF r.upd THEN u.cache ELSE [g.cache EXCEPT !.data = r.D.data]
        a == log_audit_action(local_audit_log, gcs_audit_log, actor_user_id,
                              log.action, arg, log.metadata, clock, ioGet, ioPut)
    IN  /\ log # NoLog =>
              Len(get_audit_log(local_audit_log, gcs_audit_log, ioGet).val) < MaxAudit
        /\ users_cache' = cache2
        /\ shared' = r.D.sh
        /\ default_users' = r.D.defs
        /\ gcs_users' = IF r.upd THEN u.gcs ELSE g.gcs
        /\ upd' = IF r.upd
                  THEN [valid |-> TRUE, dir |-> r.D.data, sh |-> r.D.sh,
                        at |-> clock, live |-> TRUE, saved |-> ioSave = "ok"]
                  ELSE UpdFollow(g.loads > 0, cache2, r.D.sh, r.D.defs)
        /\ local_audit_log' = IF log # NoLog THEN a.local ELSE local_audit_log
        /\ gcs_audit_log' = IF log # NoLog THEN a.gcs ELSE gcs_audit_log
        /\ logged' = IF log # NoLog THEN Append(logged, a.val) ELSE logged
        /\ ret' = [op |-> opname, arg |-> arg,
                   val |-> [ok |-> r.ok, msg |-> r.msg],
                   pre |-> pre]
        /\ UNCHANGED <<clock, ticks, gcs_configured, request, sessVars, peerVars>>

\* A handler called directly: ret.pre keeps, for a refused call, the
\* directory its get_users_db call returned and the durable copy it left.
DirCommit(opname, arg, actor_user_id, g, r, log, ioSave, ioGet, ioPut) ==
    DirCommitAs(opname, arg, actor_user_id, g, r, log, ioSave, ioGet, ioPut,
                IF r.ok THEN None ELSE [dir |-> g.val, gcs |-> g.gcs])

\* get_users_db() called on its own (get_all_users, the admin tables).
GetUsersDb(ioLoad, ioSeed) ==
    LET g == get_users_db(users_cache, shared, default_users, gcs_users, clock,
                          ioLoad, ioSeed)
    IN  /\ users_cache' = g.cache
        /\ shared' = g.sh
        /\ gcs_users' = g.gcs
        /\ upd' = UpdFollow(g.loads > 0, g.cache, g.sh, default_users)
        /\ ret' = [op |-> "get_users_db", arg |-> NoneStr, val |-> g.val,
                   pre |-> [populated |-> users_cache.data # None
                                           /\ users_cache.loaded_at # None,
                            loaded_at |-> users_cache.loaded_at,
                            now |-> clock,
                            loads |-> g.loads, saves |-> g.saves]]
        /\ UNCHANGED <<clock, ticks, gcs_configured, request, default_users, sessVars, auditVars, peerVars>>

\* invalidate_users_cache()
InvalidateUsersCache ==
    /\ users_cache' = invalidate_users_cache
    /\ shared' = {}
    /\ upd' = NoUpd
    /\ ret' = [op |-> "invalidate_users_cache", arg |-> NoneStr, val |-> None,
               pre |-> None]
    /\ UNCHANGED <<clock, ticks, gcs_configured, request, default_users, gcs_users, sessVars, auditVars, peerVars>>

AddUser(user_id, password, role, name, dashboards, app_access, ioLoad, ioSeed, ioSave) ==
    LET g == get_users_db(users_cache, shared, default_users, gcs_users, clock,
                          ioLoad, ioSeed)
        r == add_user(UsersOf(g), user_id, password, role, name, dashboards, app_access)
    IN  DirCommit("add_user", user_id, NoneStr, g, r, NoLog, ioSave, "ok", "ok")

UpdateUser(user_id, password, role, name, dashboards, app_access, ioLoad, ioSeed, ioSave) ==
    LET g == get_users_db(users_cache, shared, default_users, gcs_users, clock,
                          ioLoad, ioSeed)
        r == update_user(UsersOf(g), user_id, password, role, name, dashboards, app_access)
    IN  DirCommit("update_user", user_id, NoneStr, g, r, NoLog, ioSave, "ok", "ok")

DeleteUser(user_id, ioLoad, ioSeed, ioSave) ==
    LET g == get_users_db(users_cache, shared, default_users, gcs_users, clock,
                          ioLoad, ioSeed)
        r == delete_user(UsersOf(g), user_id)
    IN  DirCommit("delete_user", user_id, NoneStr, g, r, NoLog, ioSave, "ok", "ok")

CreateUser(actor_user_id, user_id, password, role, name, dashboards, app_access, ioLoad, ioSeed, ioSave, ioGet, ioPut) ==
    LET g == get_users_db(users_cache, shared, default_users, gcs_users, clock,
                          ioLoad, ioSeed)
        r == create_user(UsersOf(g), actor_user_id, user_id, password, role, name,
                         dashboards, app_access, clock)
    IN  DirCommit("create_user", user_id, actor_user_id, g, r, r.log, ioSave, ioGet, ioPut)

EditUser(actor_user_id, actor_role, user_id, password, role, name, dashboards, app_access, ioLoad, ioSeed, ioSave, ioGet, ioPut) ==
    LET g == get_users_db(users_cache, shared, default_users, gcs_users, clock,
                          ioLoad, ioSeed)
        r == edit_user(UsersOf(g), actor_user_id, actor_role, user_id, password, role,
                       name, dashboards, app_access, clock)
    IN  DirCommit("edit_user", user_id, actor_user_id, g, r, r.log, ioSave, ioGet, ioPut)

SoftDeleteUser(actor_user_id, actor_role, user_id, ioLoad, ioSeed, ioSave, ioGet, ioPut) ==
    LET g == get_users_db(users_cache, shared, default_users, gcs_users, clock,
                          ioLoad, ioSeed)
        r == soft_delete_user(UsersOf(g), actor_user_id, actor_role, user_id, clock)
    IN  DirCommit("soft_delete_user", user_id, actor_user_id, g, r, r.log, ioSave,
                  ioGet, ioPut)

ToggleUserStatus(actor_user_id, actor_role, user_id, ioLoad, ioSeed, ioSave, ioGet, ioPut) ==
    LET g == get_users_db(users_cache, shared, default_users, gcs_users, clock,
                          ioLoad, ioSeed)
        r == toggle_user_status(UsersOf(g), actor_user_id, actor_role, user_id, clock)
    IN  DirCommit("toggle_user_status", user_id, actor_user_id, g, r, r.log, ioSave,
                  ioGet, ioPut)

\* -------------------------------------------------------------------------
\* auth.py in a second process: its own _users_cache, the same blob
\* -------------------------------------------------------------------------
\* get_users_db() there
PeerGetUsersDb(ioLoad, ioSeed) ==
    LET g == get_users_db(peer_cache, {}, DEFAULT_USERS, gcs_users, clock, ioLoad, ioSeed)
    IN  /\ peer_users = None
        /\ peer_cache' = g.cache
        /\ gcs_users' = g.gcs
        /\ ret' = [op |-> "peer_get_users_db", arg |-> NoneStr, val |-> g.val,
                   pre |-> [populated |-> peer_cache.data # None
                                           /\ peer_cache.loaded_at # None,
                            loaded_at |-> peer_cache.loaded_at,
                            now |-> clock, io |-> ioLoad, gcs |-> gcs_users]]
        /\ UNCHANGED <<clock, ticks, gcs_configured, request, sessVars, auditVars,
                       users_cache, shared, default_users, upd, peer_users>>

\* add_user(...) there, up to its update_users_db call: the new record is
\* already in the dict the cache holds.
PeerAddUser(user_id, password, role, name, dashboards, app_access, ioLoad, ioSeed) ==
    LET g == get_users_db(peer_cache, {}, DEFAULT_USERS, gcs_users, clock, ioLoad, ioSeed)
        r == add_user([data |-> g.val, sh |-> {}, defs |-> DEFAULT_USERS], user_id,
                      password, role, name, dashboards, app_access)
    IN  /\ peer_users = None
        /\ peer_cache' = [g.cache EXCEPT !.data = r.D.data]
        /\ gcs_users' = g.gcs
        /\ peer_users' = IF r.upd THEN r.D.data ELSE None
        /\ ret' = [op |-> "peer_add_user", arg |-> user_id,
                   val |-> [ok |-> r.ok, msg |-> r.msg],
                   pre |-> [loads |-> g.loads]]
        /\ UNCHANGED <<clock, ticks, gcs_configured, request, sessVars, auditVars,
                       users_cache, shared, default_users, upd>>

\* update_users_db(users) ending that handler
PeerUpdateUsersDb(io) ==
    LET u == update_users_db(peer_users, gcs_users, clock, io)
    IN  /\ peer_users # None
        /\ peer_cache' = u.cache
        /\ gcs_users' = u.gcs
        /\ peer_users' = None
        /\ ret' = [op |-> "peer_update_users_db", arg |-> NoneStr, val |-> None,
                   pre |-> [io |-> io, users |-> peer_users, gcs |-> gcs_users]]
        /\ UNCHANGED <<clock, ticks, gcs_configured, request, sessVars, auditVars,
                       users_cache, shared, default_users, upd>>

\* -------------------------------------------------------------------------
\* admin_panel/services.py: the audit log called on its own
\* -------------------------------------------------------------------------
\* get_audit_log()
GetAuditLog(io) ==
    /\ ret' = [op |-> "get_audit_log", arg |-> NoneStr,
               val |-> get_audit_log(local_audit_log, gcs_audit_log, io).val,
               pre |-> io]
    /\ UNCHANGED <<clock, ticks, gcs_configured, request, sessVars, dirVars, auditVars>>

\* log_audit_action(actor_user_id, action, target_user_id, metadata); the
\* entry's timestamp is datetime.now(), later than that of the call before.
LogAuditActionWithin(bound, actor_user_id, action, target_user_id, metadata, ioGet, ioPut) ==
    LET a == log_audit_action(local_audit_log, gcs_audit_log, actor_user_id,
                              action, target_user_id, metadata, clock, ioGet, ioPut)
    IN  /\ Len(logged) < bound
        /\ local_audit_log' = a.local
        /\ gcs_audit_log' = a.gcs
        /\ logged' = Append(logged, a.val)
        /\ clock' = clock + 1
        /\ ret' = [op |-> "log_audit_action", arg |-> target_user_id, val |-> a.val,
                   pre |-> [get |-> ioGet, put |-> ioPut]]
        /\ UNCHANGED <<ticks, gcs_configured, request, sessVars, dirVars>>

LogAuditAction(actor_user_id, action, target_user_id, metadata, ioGet, ioPut) ==
    LogAuditActionWithin(MaxLogged, actor_user_id, action, target_user_id, metadata,
                         ioGet, ioPut)

\* -------------------------------------------------------------------------
\* admin_panel/callbacks.py: the save button of the user form
\* -------------------------------------------------------------------------
\* save_user(...): current_user is what get_current_user returned for the
\* session (None without a valid session), access_data the form's
\* dashboard -> apps store; user_id, name, password and role are not empty
\* (the callback returns a warning before any call otherwise).
SaveUser(current_user, mode, user_id, name, password, role, access_data, ioLoad, ioSeed, ioSave, ioGet, ioPut) ==
    LET actor_id == IF current_user # None
                    THEN DictGet(current_user, "username", "unknown") ELSE "unknown"
        actor_role == IF current_user # None
                      THEN DictGet(current_user, "role", "readonly") ELSE "readonly"
        dashboards == IF role \in {"admin", "super_admin"} THEN DashAll
                      ELSE DashList(KeysOf(access_data))
        app_access == IF role \in {"admin", "super_admin"} THEN EmptyDict
                      ELSE access_data
        g == get_users_db(users_cache, shared, default_users, gcs_users, clock,
                          ioLoad, ioSeed)
        r == IF mode = "new"
             THEN create_user(UsersOf(g), actor_id, user_id, password, role, name,
                              dashboards, app_access, clock)
             ELSE edit_user(UsersOf(g), actor_id, actor_role, user_id, password, role,
                            name, dashboards, app_access, clock)
    IN  DirCommitAs("save_user", user_id, actor_id, g, r, r.log, ioSave, ioGet, ioPut,
                    [actor_role |-> actor_role, session |-> current_user # None,
                     mode |-> mode, role |-> role,
                     target_role |-> IF Has(g.val, user_id) THEN g.val[user_id].role
                                     ELSE NoneStr])

\* confirm_delete(...): the confirm button of the delete dialog, user_id
\* being the (non-empty) id the dialog was opened for.
ConfirmDelete(current_user, user_id, ioLoad, ioSeed, ioSave, ioGet, ioPut) ==
    LET actor_id == IF current_user # None
                    THEN DictGet(current_user, "username", "unknown") ELSE "unknown"
        actor_role == IF current_user # None
                      THEN DictGet(current_user, "role", "readonly") ELSE "readonly"
        g == get_users_db(users_cache, shared, default_users, gcs_users, clock,
                          ioLoad, ioSeed)
        r == soft_delete_user(UsersOf(g), actor_id, actor_role, user_id, clock)
    IN  DirCommitAs("confirm_delete", user_id, actor_id, g, r, r.log, ioSave, ioGet, ioPut,
                    [actor_id |-> actor_id, actor_role |-> actor_role, dir |-> g.val])

\* -------------------------------------------------------------------------
\* auth.py: login and dashboard access
\* -------------------------------------------------------------------------
\* config.DASHBOARDS: id and enabled of each entry.
DASHBOARDS ==
    << [id |-> "icarus_historical", enabled |-> TRUE],
       [id |-> "icarus_multi", enabled |-> TRUE],
       [id |-> "all_metrics_merged", enabled |-> TRUE],
       [id |-> "daedalus", enabled |-> TRUE],
       [id |-> "vol_val_plan", enabled |-> FALSE],
       [id |-> "icarus_cohort", enabled |-> FALSE],
       [id |-> "cwc", enabled |-> FALSE],
       [id |-> "vol_val_entity", enabled |-> FALSE] >>

\* can_access_dashboard without the test of "enabled".
can_access_dashboard_any(user, dashboard_id) ==
    IF user = None \/ user = EmptyDict THEN FALSE
    ELSE IF \A i \in 1..Len(DASHBOARDS) : DASHBOARDS[i].id # dashboard_id THEN FALSE
    ELSE IF DictGet(user, "role", NoneStr) \in {"admin", "super_admin"}
            \/ DictGet(user, "dashboards", None) = DashAll
         THEN TRUE
         ELSE dashboard_id \in Range(DictGet(user, "dashboards", DashList(<<>>)).ids)

\* can_access_dashboard(session_id, dashboard_id), user being what
\* get_current_user(session_id) returned.
can_access_dashboard(user, dashboard_id) ==
    IF user = None \/ user = EmptyDict THEN FALSE
    ELSE LET found == {i \in 1..Len(DASHBOARDS) : DASHBOARDS[i].id = dashboard_id}
             dashboard == DASHBOARDS[CHOOSE i \in found : \A j \in found : i <= j]
         IN  IF found = {} \/ ~dashboard.enabled THEN FALSE
             ELSE IF DictGet(user, "role", NoneStr) \in {"admin", "super_admin"}
                     \/ DictGet(user, "dashboards", None) = DashAll
                  THEN TRUE
                  ELSE dashboard_id
                          \in Range(DictGet(user, "dashboards", DashList(<<>>)).ids)

\* The test of authenticate accepting every password of a known username.
CredentialsMatchName(users, username, password) == Has(users, username)

\* The two nested tests of authenticate.
CredentialsMatch(users, username, password) ==
    Has(users, username) /\ users[username].password = password

\* authenticate(username, password, remember_me); session_id is the id
\* generate_session_id returns if create_session is reached.
Authenticate(username, password, remember_me, session_id, skew, ioLoad, ioSeed, io) ==
    LET g == get_users_db(users_cache, shared, default_users, gcs_users, clock,
                          ioLoad, ioSeed)
        users == g.val
        ok == CredentialsMatch(users, username, password)
        data == SessionData(session_id, UserData(users, username), remember_me,
                            clock, clock + skew)
        s == save_session_to_gcs(memory_sessions, gcs_sessions, session_id, data, io)
    IN  /\ ok => session_id \notin issued
        /\ users_cache' = g.cache
        /\ shared' = g.sh
        /\ gcs_users' = g.gcs
        /\ upd' = UpdFollow(g.loads > 0, g.cache, g.sh, default_users)
        /\ memory_sessions' = IF ok THEN s.mem ELSE memory_sessions
        /\ gcs_sessions' = IF ok THEN s.gcs ELSE gcs_sessions
        /\ issued' = IF ok THEN issued \cup {session_id} ELSE issued
        /\ clock' = IF ok THEN clock + skew ELSE clock
        /\ ret' = [op |-> "authenticate",
                   arg |-> IF ok THEN session_id ELSE NoneStr,
                   val |-> IF ok
                           THEN [ok |-> TRUE, session_id |-> session_id,
                                 expires_at |-> At(data.expires_at)]
                           ELSE [ok |-> FALSE, session_id |-> NoneStr,
                                 expires_at |-> None],
                   pre |-> [username |-> username, password |-> password,
                            users |-> users,
                            mem |-> memory_sessions, gcs |-> gcs_sessions,
                            gcs_users |-> gcs_users, seeded |-> g.gcs]]
        /\ UNCHANGED <<ticks, logouts, gcs_configured, request, default_users, auditVars, peerVars>>

\* A record of the id is stored and past its expires_at.
WasExpired(session_id) ==
    /\ Stored(session_id)
    /\ Expired(IF Has(gcs_sessions, session_id) THEN gcs_sessions[session_id]
               ELSE memory_sessions[session_id], clock)

\* get_current_user(session_id)
GetCurrentUser(session_id, io, ioDel) ==
    LET s == get_current_user(memory_sessions, gcs_sessions, session_id, clock, io, ioDel)
    IN  /\ memory_sessions' = s.mem
        /\ gcs_sessions' = s.gcs
        /\ ret' = [op |-> "get_current_user", arg |-> session_id, val |-> s.val,
                   pre |-> WasExpired(session_id)]
        /\ UNCHANGED <<clock, ticks, issued, logouts, gcs_configured, request, dirVars, auditVars>>

\* can_access_dashboard(session_id, dashboard_id); ret.pre.user is what its
\* get_current_user call returned.
CanAccessDashboard(session_id, dashboard_id, io, ioDel) ==
    LET s == get_current_user(memory_sessions, gcs_sessions, session_id, clock, io, ioDel)
    IN  /\ memory_sessions' = s.mem
        /\ gcs_sessions' = s.gcs
        /\ ret' = [op |-> "can_access_dashboard", arg |-> session_id,
                   val |-> can_access_dashboard(s.val, dashboard_id),
                   pre |-> [expired |-> WasExpired(session_id), user |-> s.val,
                            dashboard_id |-> dashboard_id]]
        /\ UNCHANGED <<clock, ticks, issued, logouts, gcs_configured, request, dirVars, auditVars>>

\* get_accessible_dashboards(session_id), user being what
\* get_current_user(session_id) returned: the records of the registry.
get_accessible_dashboards(user) ==
    IF user = None \/ user = EmptyDict THEN <<>>
    ELSE IF DictGet(user, "role", NoneStr) \in {"admin", "super_admin"}
            \/ DictGet(user, "dashboards", None) = DashAll
         THEN DASHBOARDS
         ELSE LET Listed(dashboard) ==
                      dashboard.id \in Range(DictGet(user, "dashboards", DashList(<<>>)).ids)
              IN  SelectSeq(DASHBOARDS, Listed)

\* get_accessible_dashboards(session_id); ret.pre.user is what its
\* get_current_user call returned.
GetAccessibleDashboards(session_id, io, ioDel) ==
    LET s == get_current_user(memory_sessions, gcs_sessions, session_id, clock, io, ioDel)
    IN  /\ memory_sessions' = s.mem
        /\ gcs_sessions' = s.gcs
        /\ ret' = [op |-> "get_accessible_dashboards", arg |-> session_id,
                   val |-> get_accessible_dashboards(s.val),
                   pre |-> [expired |-> WasExpired(session_id), user |-> s.val]]
        /\ UNCHANGED <<clock, ticks, issued, logouts, gcs_configured, request, dirVars, auditVars>>

\* -------------------------------------------------------------------------
\* auth.py: role hierarchy; app.py: the callbacks of the older user dialog
\* -------------------------------------------------------------------------
\* can_manage_user(current_role, target_role)
can_manage_user(current_role, target_role) ==
    IF current_role = "super_admin" THEN TRUE
    ELSE IF current_role = "admin" /\ target_role = "readonly" THEN TRUE
    ELSE FALSE

\* can_delete_user(current_role, target_user_id, target_role)
can_delete_user(current_role, target_user_id, target_role) ==
    IF target_role = "super_admin" THEN FALSE
    ELSE IF current_role = "super_admin" THEN TRUE
    ELSE IF current_role = "admin" /\ target_role = "readonly" THEN TRUE
    ELSE FALSE

\* save_user_from_modal(...): user_id, name and password are not empty.
\* The callback has no session among its inputs; caller is the user of the
\* session the browser holds (None without one), which it never reads.
SaveUserFromModal(caller, mode, user_id, name, password, role, access_data, ioLoad, ioSeed, ioSave) ==
    LET dashboards == IF role \in {"admin", "super_admin"} THEN DashAll
                      ELSE DashList(KeysOf(access_data))
        app_access == IF role \in {"admin", "super_admin"} THEN EmptyDict
                      ELSE access_data
        g == get_users_db(users_cache, shared, default_users, gcs_users, clock,
                          ioLoad, ioSeed)
        r == IF mode = "new"
             THEN add_user(UsersOf(g), user_id, password, role, name, dashboards,
                           app_access)
             ELSE update_user(UsersOf(g), user_id, password, role, name, dashboards,
                              app_access)
    IN  DirCommitAs("save_user_from_modal", user_id, NoneStr, g, r, NoLog, ioSave,
                    "ok", "ok", [caller |-> caller, role |-> role, dir |-> g.val])

\* execute_delete_user(...): user_id is the (non-empty) id of the dialog.
ExecuteDeleteUser(caller, user_id, ioLoad, ioSeed, ioSave) ==
    LET g == get_users_db(users_cache, shared, default_users, gcs_users, clock,
                          ioLoad, ioSeed)
        r == delete_user(UsersOf(g), user_id)
    IN  DirCommitAs("execute_delete_user", user_id, NoneStr, g, r, NoLog, ioSave,
                    "ok", "ok", [caller |-> caller, role |-> NoneStr, dir |-> g.val])

\* -------------------------------------------------------------------------
\* app.py: the page callback
\* -------------------------------------------------------------------------
\* render_page(session_data, current_page, theme): val names the layout
\* returned as page content, user is what get_current_user returned. A
\* session store without a session id has session_id = NoneStr.
render_page(mem, gcs, session_id, current_page, now, io, ioDel) ==
    LET a == is_authenticated(mem, gcs, session_id, now, io, ioDel)
        u == get_current_user(a.mem, a.gcs, session_id, now, io, ioDel)
    IN  IF session_id = NoneStr \/ ~a.val
        THEN [mem |-> IF session_id = NoneStr THEN mem ELSE a.mem,
              gcs |-> IF session_id = NoneStr THEN gcs ELSE a.gcs,
              val |-> "login", user |-> None]
        ELSE [mem |-> u.mem, gcs |-> u.gcs, user |-> u.val,
              val |-> IF current_page \in {"landing", "login"} THEN "landing"
                      ELSE IF current_page = "icarus_historical" THEN "icarus_historical"
                      ELSE IF current_page = "icarus_multi" THEN "icarus_multi"
                      ELSE IF current_page = "all_metrics_merged" THEN "all_metrics_merged"
                      ELSE "landing"]

RenderPage(session_id, current_page, io, ioDel) ==
    LET r == render_page(memory_sessions, gcs_sessions, session_id, current_page,
                         clock, io, ioDel)
    IN  /\ memory_sessions' = r.mem
        /\ gcs_sessions' = r.gcs
        /\ ret' = [op |-> "render_page", arg |-> session_id, val |-> r.val,
                   pre |-> [current_page |-> current_page, user |-> r.user]]
        /\ UNCHANGED <<clock, ticks, issued, logouts, gcs_configured, request, dirVars, auditVars>>

\* Everything but the clock and the audit log.
Imported ==
    /\ ticks = 0
    /\ memory_sessions = EmptyDict
    /\ gcs_sessions = EmptyDict
    /\ issued = {}
    /\ logouts = [s \in SessionIds |-> 0]
    /\ users_cache = [data |-> None, loaded_at |-> None]
    /\ shared = {}
    /\ default_users = DEFAULT_USERS
    /\ gcs_users = None
    /\ upd = NoUpd
    /\ peer_cache = [data |-> None, loaded_at |-> None]
    /\ peer_users = None
    /\ gcs_configured \in BOOLEAN
    /\ ret = [op |-> "init", arg |-> NoneStr, val |-> None, pre |-> None]

Started ==
    /\ Imported
    /\ clock = 0
    /\ local_audit_log = <<>>
    /\ gcs_audit_log = None
    /\ logged = <<>>

\* The process after import, no page requested.
Init ==
    /\ Started
    /\ request = NoRequest

SessTickSteps == {SESSION_TTL_DEFAULT, SESSION_TTL_REMEMBER}
SessUsers == {UserData(DEFAULT_USERS, "viewer")}

NextSess ==
    \/ \E s \in SessionIds, u \in SessUsers, r \in BOOLEAN, k \in ClockSkews, io \in Flaky :
          CreateSession(s, u, r, k, io)
    \/ \E s \in SessionIds, io \in Flaky, ioDel \in Flaky : GetSessionData(s, io, ioDel)
    \/ \E s \in SessionIds, io \in Flaky, ioDel \in Flaky : IsAuthenticated(s, io, ioDel)
    \/ \E s \in SessionIds, io \in Flaky : Logout(s, io)
    \/ \E d \in SessTickSteps : Tick(d)

SpecSess == Init /\ [][NextSess]_vars
\* Argument values of the directory handlers.
\* Logins with the right password and the reads of a session, the session
\* store failing call by call.
LoginNames == {"admin", "viewer"}
PageIds == {"icarus_historical", "daedalus", "cwc", "nowhere"}

NextLogin ==
    \/ \E u \in LoginNames, r \in BOOLEAN, s \in SessionIds,
          ioLoad \in Steady, ioSeed \in Steady, io \in Flaky :
          Authenticate(u, DEFAULT_USERS[u].password, r, s, 0, ioLoad, ioSeed, io)
    \/ \E s \in SessionIds, io \in Flaky, ioDel \in Flaky : GetSessionData(s, io, ioDel)
    \/ \E s \in SessionIds, io \in Flaky, ioDel \in Flaky : IsAuthenticated(s, io, ioDel)
    \/ \E s \in SessionIds, io \in Flaky, ioDel \in Flaky : GetCurrentUser(s, io, ioDel)
    \/ \E s \in SessionIds, d \in PageIds, io \in Flaky, ioDel \in Flaky :
          CanAccessDashboard(s, d, io, ioDel)
    \/ \E s \in SessionIds, io \in Flaky : Logout(s, io)
    \/ \E d \in SessTickSteps : Tick(d)

SpecLogin == Init /\ [][NextLogin]_vars

\* Pages requested with the session store and the page store holding any
\* value.
StoreSessions == SessionIds \cup {NoneStr}
PageValues == {"login", "landing", "icarus_historical", "icarus_multi", "all_metrics_merged", "daedalus", "cwc"}

NextPage ==
    \/ \E u \in LoginNames, r \in BOOLEAN, s \in SessionIds,
          ioLoad \in Steady, ioSeed \in Steady, io \in Steady :
          Authenticate(u, DEFAULT_USERS[u].password, r, s, 0, ioLoad, ioSeed, io)
    \/ \E s \in StoreSessions, page \in PageValues, io \in Steady, ioDel \in Steady :
          RenderPage(s, page, io, ioDel)
    \/ \E s \in SessionIds, io \in Steady : Logout(s, io)
    \/ \E d \in SessTickSteps : Tick(d)

SpecPage == Init /\ [][NextPage]_vars

\* The list of dashboards asked for by sessions that log in, expire and
\* log out.
NextAccess ==
    \/ \E u \in LoginNames, r \in BOOLEAN, s \in SessionIds,
          ioLoad \in Steady, ioSeed \in Steady, io \in Steady :
          Authenticate(u, DEFAULT_USERS[u].password, r, s, 0, ioLoad, ioSeed, io)
    \/ \E s \in StoreSessions, io \in Steady, ioDel \in Steady :
          GetAccessibleDashboards(s, io, ioDel)
    \/ \E s \in SessionIds, io \in Steady : Logout(s, io)
    \/ \E d \in SessTickSteps : Tick(d)

SpecAccess == Init /\ [][NextAccess]_vars

UserIds == {"admin", "viewer"}
DirTickSteps == {100, 300}
ViewerDashboards == DashList(<<"icarus_historical">>)

\* The auth.py directory functions, the store answering every call it is
\* configured for.
PasswordArgs == {NoneStr, "pw2"}
RoleArgs == Roles \cup {NoneStr}
NameArgs == {NoneStr}
DashArgs == {None}
AppArgs == {None}

NextDir ==
    \/ \E ioLoad \in Steady, ioSeed \in Steady : GetUsersDb(ioLoad, ioSeed)
    \/ InvalidateUsersCache
    \/ \E u \in UserIds, r \in Roles, a \in AppArgs,
          ioLoad \in Steady, ioSeed \in Steady, ioSave \in Steady :
          AddUser(u, "viewer123", r, "Viewer User", ViewerDashboards, a,
                  ioLoad, ioSeed, ioSave)
    \/ \E u \in UserIds, p \in PasswordArgs, r \in RoleArgs, n \in NameArgs,
          d \in DashArgs, a \in AppArgs,
          ioLoad \in Steady, ioSeed \in Steady, ioSave \in Steady :
          UpdateUser(u, p, r, n, d, a, ioLoad, ioSeed, ioSave)
    \/ \E u \in UserIds, ioLoad \in Steady, ioSeed \in Steady, ioSave \in Steady :
          DeleteUser(u, ioLoad, ioSeed, ioSave)

SpecDir == Init /\ [][NextDir]_vars

\* The directory cache over time, the store failing call by call.
NextCache ==
    \/ \E ioLoad \in Flaky, ioSeed \in Flaky : GetUsersDb(ioLoad, ioSeed)
    \/ InvalidateUsersCache
    \/ \E ioLoad \in Flaky, ioSeed \in Flaky, ioSave \in Flaky :
          AddUser("viewer", "viewer123", "readonly", "Viewer User", ViewerDashboards,
                  None, ioLoad, ioSeed, ioSave)
    \/ \E ioLoad \in Flaky, ioSeed \in Flaky, ioSave \in Flaky :
          DeleteUser("viewer", ioLoad, ioSeed, ioSave)
    \/ \E d \in DirTickSteps : Tick(d)

SpecCache == Init /\ [][NextCache]_vars

\* Logins with right and wrong names and passwords against a directory
\* that changes, the directory store failing call by call.
GateNames == {"viewer", "ghost"}
GatePasswords == {"viewer123", "wrong"}

NextGate ==
    \/ \E u \in GateNames, p \in GatePasswords, s \in SessionIds,
          ioLoad \in Flaky, ioSeed \in Flaky, io \in Steady :
          Authenticate(u, p, FALSE, s, 0, ioLoad, ioSeed, io)
    \/ InvalidateUsersCache
    \/ \E ioLoad \in Flaky, ioSeed \in Flaky, ioSave \in Flaky :
          AddUser("ghost", "viewer123", "readonly", "Viewer User", ViewerDashboards,
                  None, ioLoad, ioSeed, ioSave)
    \/ \E ioLoad \in Flaky, ioSeed \in Flaky, ioSave \in Flaky :
          DeleteUser("viewer", ioLoad, ioSeed, ioSave)

SpecGate == Init /\ [][NextGate]_vars

\* Accounts created and edited through both layers, every call passing
\* per-dashboard restrictions.
GrantIds == {"viewer", "ops"}
GrantRoles == {"readonly", "admin"}
GrantDashboards == DashList(<<"daedalus">>)
GrantApps == [d \in {"daedalus"} |-> <<"AppA">>]

NextGrant ==
    \/ \E u \in GrantIds, r \in GrantRoles,
          ioLoad \in Steady, ioSeed \in Steady, ioSave \in Steady :
          AddUser(u, "viewer123", r, "Viewer User", GrantDashboards, GrantApps,
                  ioLoad, ioSeed, ioSave)
    \/ \E u \in GrantIds, r \in GrantRoles \cup {NoneStr},
          ioLoad \in Steady, ioSeed \in Steady, ioSave \in Steady :
          UpdateUser(u, NoneStr, r, NoneStr, GrantDashboards, GrantApps,
                     ioLoad, ioSeed, ioSave)
    \/ \E u \in GrantIds, r \in GrantRoles,
          ioLoad \in Steady, ioSeed \in Steady, ioSave \in Steady,
          ioGet \in Steady, ioPut \in Steady :
          CreateUser("admin", u, "viewer123", r, "Viewer User", GrantDashboards,
                     GrantApps, ioLoad, ioSeed, ioSave, ioGet, ioPut)
    \/ \E u \in GrantIds, r \in GrantRoles \cup {NoneStr},
          ioLoad \in Steady, ioSeed \in Steady, ioSave \in Steady,
          ioGet \in Steady, ioPut \in Steady :
          EditUser("admin", "super_admin", u, NoneStr, r, NoneStr, GrantDashboards,
                   GrantApps, ioLoad, ioSeed, ioSave, ioGet, ioPut)

SpecGrant == Init /\ [][NextGrant]_vars

\* Two processes on one store, each adding an account of its own.
NextPeers ==
    \/ \E ioLoad \in Steady, ioSeed \in Steady : GetUsersDb(ioLoad, ioSeed)
    \/ \E ioLoad \in Steady, ioSeed \in Steady, ioSave \in Flaky :
          AddUser("ghost", "viewer123", "readonly", "Viewer User", ViewerDashboards,
                  None, ioLoad, ioSeed, ioSave)
    \/ \E ioLoad \in Flaky, ioSeed \in Steady : PeerGetUsersDb(ioLoad, ioSeed)
    \/ \E ioLoad \in Steady, ioSeed \in Steady :
          PeerAddUser("guest", "viewer123", "readonly", "Viewer User",
                      ViewerDashboards, None, ioLoad, ioSeed)
    \/ \E io \in Flaky : PeerUpdateUsersDb(io)
    \/ \E d \in DirTickSteps : Tick(d)

SpecPeers == Init /\ [][NextPeers]_vars

\* A session of viewer while viewer's directory record is edited, disabled,
\* deleted and created again.
NextFrame ==
    \/ \E s \in SessionIds, ioLoad \in Steady, ioSeed \in Steady, io \in Steady :
          Authenticate("viewer", "viewer123", FALSE, s, 0, ioLoad, ioSeed, io)
    \/ \E s \in SessionIds, io \in Steady, ioDel \in Steady : GetCurrentUser(s, io, ioDel)
    \/ \E s \in SessionIds, io \in Steady : Logout(s, io)
    \/ \E r \in {"readonly"}, ioLoad \in Steady, ioSeed \in Steady, ioSave \in Steady :
          AddUser("viewer", "viewer123", r, "Viewer User", GrantDashboards, GrantApps,
                  ioLoad, ioSeed, ioSave)
    \/ \E r \in {"admin"}, ioLoad \in Steady, ioSeed \in Steady, ioSave \in Steady :
          UpdateUser("viewer", NoneStr, r, NoneStr, GrantDashboards, GrantApps,
                     ioLoad, ioSeed, ioSave)
    \/ \E ioLoad \in Steady, ioSeed \in Steady, ioSave \in Steady :
          DeleteUser("viewer", ioLoad, ioSeed, ioSave)
    \/ \E ioLoad \in Steady, ioSeed \in Steady, ioSave \in Steady,
          ioGet \in Steady, ioPut \in Steady :
          CreateUser("admin", "viewer", "viewer123", "readonly", "Viewer User",
                     GrantDashboards, GrantApps, ioLoad, ioSeed, ioSave, ioGet, ioPut)
    \/ \E r \in {"admin"}, ioLoad \in Steady, ioSeed \in Steady, ioSave \in Steady,
          ioGet \in Steady, ioPut \in Steady :
          EditUser("admin", "super_admin", "viewer", NoneStr, r, NoneStr,
                   GrantDashboards, GrantApps, ioLoad, ioSeed, ioSave, ioGet, ioPut)
    \/ \E ioLoad \in Steady, ioSeed \in Steady, ioSave \in Steady,
          ioGet \in Steady, ioPut \in Steady :
          SoftDeleteUser("admin", "super_admin", "viewer",
                         ioLoad, ioSeed, ioSave, ioGet, ioPut)
    \/ \E ioLoad \in Steady, ioSeed \in Steady, ioSave \in Steady,
          ioGet \in Steady, ioPut \in Steady :
          ToggleUserStatus("admin", "super_admin", "viewer",
                           ioLoad, ioSeed, ioSave, ioGet, ioPut)

SpecFrame == Init /\ [][NextFrame]_vars

\* The audit log written and read while the store comes and goes.
AuditActions == {"CREATE_USER", "DISABLE_USER"}

NextAudit ==
    \/ \E io \in Flaky : GetAuditLog(io)
    \/ \E action \in AuditActions, ioGet \in Flaky, ioPut \in Flaky :
          LogAuditAction("admin", action, "viewer", None, ioGet, ioPut)

SpecAudit == Init /\ [][NextAudit]_vars

\* The audit log near its cap: the process has made n log_audit_action
\* calls one second apart, the store answering each as it is configured.
CapStarts == {AUDIT_LOG_KEEP - 2, AUDIT_LOG_KEEP - 1, AUDIT_LOG_KEEP}
Logged(n) == [i \in 1..n |-> [id |-> i, actor_user_id |-> "admin", action |-> "CREATE_USER", target_user_id |-> "viewer", timestamp |-> i - 1, metadata |-> EmptyDict]]

InitCap ==
    /\ Imported
    /\ request = NoRequest
    /\ \E n \in CapStarts :
          /\ clock = n
          /\ logged = Logged(n)
          /\ local_audit_log = IF gcs_configured THEN <<>> ELSE Logged(n)
          /\ gcs_audit_log = IF gcs_configured THEN Blob(Logged(n)) ELSE None

NextCap ==
    \/ \E io \in Flaky : GetAuditLog(io)
    \/ \E ioGet \in Flaky, ioPut \in Flaky :
          LogAuditActionWithin(AUDIT_LOG_KEEP + MaxOverCap, "admin", "CREATE_USER",
                               "viewer", None, ioGet, ioPut)

SpecCap == InitCap /\ [][NextCap]_vars

\* The user form saved by any session, with any form values.
PanelUsers ==
    {None,
     [username |-> "admin", role |-> "super_admin"],
     [username |-> "ops", role |-> "admin"],
     [username |-> "viewer", role |-> "readonly"]}
PanelIds == {"viewer", "ops"}
PanelRoles == {"readonly", "admin"}
AccessData == {[d \in {"icarus_multi"} |-> <<"AppA">>]}

NextPanel ==
    \/ \E ioLoad \in Steady, ioSeed \in Steady : GetUsersDb(ioLoad, ioSeed)
    \/ \E cu \in PanelUsers, mode \in {"new", "edit"}, u \in PanelIds, r \in PanelRoles,
          ad \in AccessData, ioLoad \in Steady, ioSeed \in Steady, ioSave \in Steady,
          ioGet \in Steady, ioPut \in Steady :
          SaveUser(cu, mode, u, "Viewer User", "viewer123", r, ad,
                   ioLoad, ioSeed, ioSave, ioGet, ioPut)

SpecPanel == Init /\ [][NextPanel]_vars

\* The delete dialog confirmed by any session for any account; the last
\* session is one whose snapshot says super_admin of an account that is
\* readonly in the directory.
DeleteActors == PanelUsers \cup {[username |-> "viewer", role |-> "super_admin"]}
DeleteIds == {"admin", "viewer", "ops"}

NextDelete ==
    \/ \E cu \in DeleteActors, u \in DeleteIds, ioLoad \in Steady, ioSeed \in Steady,
          ioSave \in Flaky, ioGet \in Steady, ioPut \in Steady :
          ConfirmDelete(cu, u, ioLoad, ioSeed, ioSave, ioGet, ioPut)
    \/ \E r \in GrantRoles, ioLoad \in Steady, ioSeed \in Steady, ioSave \in Steady,
          ioGet \in Steady, ioPut \in Steady :
          CreateUser("admin", "ops", "viewer123", r, "Viewer User", ViewerDashboards,
                     None, ioLoad, ioSeed, ioSave, ioGet, ioPut)
    \/ \E u \in DeleteIds, ioLoad \in Steady, ioSeed \in Steady, ioSave \in Steady,
          ioGet \in Steady, ioPut \in Steady :
          ToggleUserStatus("admin", "super_admin", u,
                           ioLoad, ioSeed, ioSave, ioGet, ioPut)

SpecDelete == Init /\ [][NextDelete]_vars

\* The older user dialog used from any browser session.
NextModal ==
    \/ \E cu \in PanelUsers, mode \in {"new", "edit"}, u \in PanelIds, r \in PanelRoles,
          ad \in AccessData, ioLoad \in Steady, ioSeed \in Steady, ioSave \in Steady :
          SaveUserFromModal(cu, mode, u, "Viewer User", "viewer123", r, ad,
                            ioLoad, ioSeed, ioSave)
    \/ \E cu \in PanelUsers, u \in UserIds \cup PanelIds,
          ioLoad \in Steady, ioSeed \in Steady, ioSave \in Steady :
          ExecuteDeleteUser(cu, u, ioLoad, ioSeed, ioSave)

SpecModal == Init /\ [][NextModal]_vars

\* The audited services.py functions.
Actors == {"admin"}
NextAdmin ==
    \/ \E ioLoad \in Steady, ioSeed \in Steady : GetUsersDb(ioLoad, ioSeed)
    \/ InvalidateUsersCache
    \/ \E actor \in Actors, u \in UserIds, r \in {"readonly"}, a \in AppArgs,
          ioLoad \in Steady, ioSeed \in Steady, ioSave \in Steady,
          ioGet \in Steady, ioPut \in Steady :
          CreateUser(actor, u, "viewer123", r, "Viewer User", ViewerDashboards, a,
                     ioLoad, ioSeed, ioSave, ioGet, ioPut)
    \/ \E actor \in Actors, actor_role \in Roles, u \in UserIds,
          p \in PasswordArgs, r \in RoleArgs, n \in NameArgs,
          d \in DashArgs, a \in AppArgs,
          ioLoad \in Steady, ioSeed \in Steady, ioSave \in Steady,
          ioGet \in Steady, ioPut \in Steady :
          EditUser(actor, actor_role, u, p, r, n, d, a,
                   ioLoad, ioSeed, ioSave, ioGet, ioPut)
    \/ \E actor \in Actors, actor_role \in Roles, u \in UserIds,
          ioLoad \in Steady, ioSeed \in Steady, ioSave \in Steady,
          ioGet \in Steady, ioPut \in Steady :
          SoftDeleteUser(actor, actor_role, u, ioLoad, ioSeed, ioSave, ioGet, ioPut)
    \/ \E actor \in Actors, actor_role \in Roles, u \in UserIds,
          ioLoad \in Steady, ioSeed \in Steady, ioSave \in Steady,
          ioGet \in Steady, ioPut \in Steady :
          ToggleUserStatus(actor, actor_role, u, ioLoad, ioSeed, ioSave, ioGet, ioPut)

SpecAdmin == Init /\ [][NextAdmin]_vars

\* The pages requested: users with and without each field, dashboards, and
\* plan groups of up to MaxPlans rows.
MaxPlans == 2
AppNames == {"AppA", "AppB"}
PlanNames == {"P1", "P2"}
DashboardIds == {"icarus_historical", "icarus_multi"}
AppLists == {<<>>, <<"AppA">>, <<"AppB">>, <<"AppA", "AppB">>}
AppAccessArgs ==
    {EmptyDict} \cup {[d \in {"icarus_historical"} |-> l] : l \in AppLists}
RequestUsers ==
    {None, EmptyDict}
        \cup {[role |-> r, app_access |-> a] : r \in Roles, a \in AppAccessArgs}
        \cup {[role |-> r] : r \in Roles}
        \cup {[app_access |-> a] : a \in AppAccessArgs}
PlanGroups ==
    UNION {{[App_Name |-> a, Plan_Name |-> p] :
               a \in [1..n -> AppNames], p \in [1..n -> PlanNames]} : n \in 0..MaxPlans}

InitApps ==
    /\ Started
    /\ request \in [user : RequestUsers, dashboard_id : DashboardIds,
                    plan_groups : PlanGroups]

NextApps ==
    \/ GetUserAllowedApps
    \/ FilterPlanGroupsByApps

SpecApps == InitApps /\ [][NextApps]_vars

\* -------------------------------------------------------------------------
\* Properties of the session store (SpecSess)
\* -------------------------------------------------------------------------
\* C1: once logout(id) has been called, once or twice and whatever the
\* durable store answered, is_authenticated(id) returns false.
LogoutEndsSession ==
    (ret.op = "is_authenticated" /\ logouts[ret.arg] >= 1) => ret.val = FALSE

\* C2: every stored session record has expires_at - created_at equal to
\* SESSION_TTL_REMEMBER when remember_me is set and to SESSION_TTL_DEFAULT
\* when it is not.
SessionTtlExact ==
    \A store \in {memory_sessions, gcs_sessions} : \A id \in DOMAIN store :
        store[id].expires_at - store[id].created_at =
            IF store[id].remember_me THEN SESSION_TTL_REMEMBER ELSE SESSION_TTL_DEFAULT

\* C3: a get_session_data(id) made while the stored record of id is past its
\* expires_at returns None and leaves no record of id in the backing store.
LazyExpiryRemoves ==
    (ret.op = "get_session_data" /\ ret.pre = TRUE) =>
        (ret.val = None /\ ~Stored(ret.arg))

CacheServedIffFresh ==
    ret.op = "get_users_db" =>
        LET young == /\ ret.pre.populated
                     /\ ret.pre.now - ret.pre.loaded_at.t < 300
        IN  /\ young <=> (ret.pre.loads = 0 /\ ret.pre.saves = 0)
            /\ ~young => ret.pre.loads = 1

\* A populated cache exactly 300 seconds old, reloaded.
CacheReloadedAtWindow ==
    /\ ret.op = "get_users_db"
    /\ ret.pre.populated
    /\ ret.pre.now - ret.pre.loaded_at.t = 300
    /\ ret.pre.loads = 1

\* -------------------------------------------------------------------------
\* Properties of the directory handlers (SpecDir, SpecAdmin)
\* -------------------------------------------------------------------------
AdminOps == {"add_user", "update_user", "delete_user", "create_user", "edit_user",
             "soft_delete_user", "toggle_user_status"}

\* C4: an administrative operation that returns success = false leaves the
\* cached directory and the durable copy as its get_users_db() call
\* returned them.
FailureLeavesDirectory ==
    (ret.op \in AdminOps /\ ~ret.val.ok) =>
        (users_cache.data = ret.pre.dir /\ gcs_users = ret.pre.gcs)

SuperAdmins(users) == {u \in DOMAIN users : users[u].role = "super_admin"}

\* C5: no step adds a username to the set of super_admin records of the
\* cached directory.
SuperAdminsNeverGain ==
    [][(users_cache.data # None /\ users_cache'.data # None) =>
          SuperAdmins(users_cache'.data) \subseteq SuperAdmins(users_cache.data)]_vars

\* C9: the directory get_users_db() returns holds at least one user record.
DirectoryNeverEmpty ==
    ret.op = "get_users_db" => DOMAIN ret.val # {}

\* C10: the cached directory has exactly one super_admin record, and that
\* record is active (is_active true or absent).
ExactlyOneSuperAdmin ==
    users_cache.data # None =>
        /\ Cardinality(SuperAdmins(users_cache.data)) = 1
        /\ \A u \in SuperAdmins(users_cache.data) :
              DictGet(users_cache.data[u], "is_active", TRUE)

\* -------------------------------------------------------------------------
\* Properties of app access (SpecApps)
\* -------------------------------------------------------------------------
Rows(plan_groups) ==
    [i \in 1..Len(plan_groups.App_Name) |->
        <<plan_groups.App_Name[i], plan_groups.Plan_Name[i]>>]
InList(l, row) == row[1] \in Range(l)
KeptRows(plan_groups, l) == SelectSeq(Rows(plan_groups), LAMBDA row : InList(l, row))

\* C6: for a user record, get_user_allowed_apps returns None when the role
\* is admin or super_admin, when a readonly user's app_access is {} and when
\* it lacks dashboard_id, and otherwise the list stored under dashboard_id;
\* filter_plan_groups_by_apps then keeps exactly the rows whose app is in
\* that list, in order, and every row when the answer was None.
AppAccessDefaultAllow ==
    LET user == request.user
        d == request.dashboard_id
        role == DictGet(user, "role", "readonly")
        app_access == DictGet(user, "app_access", EmptyDict)
        expected == IF role \in {"admin", "super_admin"} THEN None
                    ELSE IF app_access = EmptyDict THEN None
                    ELSE IF d \notin DOMAIN app_access THEN None
                    ELSE Apps(app_access[d])
    IN  (user # None /\ user # EmptyDict) =>
            /\ ret.op = "get_user_allowed_apps" => ret.val = expected
            /\ ret.op = "filter_plan_groups_by_apps" =>
                  /\ ret.pre = expected
                  /\ Rows(ret.val) = IF expected = None THEN Rows(request.plan_groups)
                                     ELSE KeptRows(request.plan_groups, expected.apps)

\* A readonly user whose list for the dashboard is empty, shown no plan of a
\* non-empty set of plan groups.
EmptyListSeesNothing ==
    /\ ret.op = "filter_plan_groups_by_apps"
    /\ request.user # None
    /\ DictGet(request.user, "role", "x") = "readonly"
    /\ Has(DictGet(request.user, "app_access", EmptyDict), request.dashboard_id)
    /\ request.user.app_access[request.dashboard_id] = <<>>
    /\ Len(request.plan_groups.App_Name) = MaxPlans
    /\ ret.val.App_Name = <<>>

\* -------------------------------------------------------------------------
\* Properties of login and session reads (SpecLogin)
\* -------------------------------------------------------------------------
\* The stored record of a session id.
RecordOf(session_id) ==
    IF Has(gcs_sessions, session_id) THEN gcs_sessions[session_id]
    ELSE memory_sessions[session_id]

\* C11: when authenticate returns success for sid, a record of sid is
\* stored whose user snapshot is the directory record's username, role,
\* name, dashboards and app_access; and while sid has not been logged out
\* and its expires_at has not passed, is_authenticated(sid) is true.
LoginPersistsSession ==
    /\ (ret.op = "authenticate" /\ ret.val.ok) =>
          /\ Stored(ret.arg)
          /\ RecordOf(ret.arg).user = UserData(ret.pre.users, ret.pre.username)
    /\ (/\ ret.op = "is_authenticated"
        /\ ret.arg \in issued
        /\ logouts[ret.arg] = 0
        /\ \E st \in {ret.pre.mem, ret.pre.gcs} :
              Has(st, ret.arg) /\ ret.pre.now <= st[ret.arg].expires_at)
          => ret.val = TRUE

Enabled(dashboard_id) ==
    \E i \in 1..Len(DASHBOARDS) :
        DASHBOARDS[i].id = dashboard_id /\ DASHBOARDS[i].enabled

\* C12: can_access_dashboard is true iff the session has a user, the
\* dashboard is registered and enabled, and the user's role is admin or
\* super_admin, or dashboards is "all", or the id is in the dashboards list.
CanAccessIff ==
    ret.op = "can_access_dashboard" =>
        LET user == ret.pre.user
            d == ret.pre.dashboard_id
        IN  ret.val = (/\ user # None
                       /\ Enabled(d)
                       /\ \/ user.role \in {"admin", "super_admin"}
                          \/ user.dashboards = DashAll
                          \/ d \in Range(user.dashboards.ids))

\* The default viewer, logged in, refused daedalus.
ViewerRefusedDaedalus ==
    /\ ret.op = "can_access_dashboard"
    /\ ret.pre.user # None
    /\ ret.pre.user.username = "viewer"
    /\ ret.pre.dashboard_id = "daedalus"
    /\ ret.val = FALSE

\* C14 as stated: is_authenticated(id) is true iff a stored record of id
\* exists, its authenticated flag is true and now <= expires_at.
SessionValidIffStored ==
    ret.op = "is_authenticated" =>
        ret.val = (\E st \in {ret.pre.mem, ret.pre.gcs} :
                      /\ Has(st, ret.arg)
                      /\ st[ret.arg].authenticated
                      /\ ret.pre.now <= st[ret.arg].expires_at)

\* The store a session read consults: the blobs when the bucket is found,
\* _memory_sessions when it is not, nothing when the download raises.
Consulted(pre) ==
    IF pre.io = "ok" THEN pre.gcs
    ELSE IF pre.io = "nobucket" THEN pre.mem
    ELSE EmptyDict

\* C14 amended: is_authenticated(id) is true iff the store the call reads
\* holds a record of id whose authenticated flag is true and
\* now <= expires_at; and for a session past its expires_at,
\* get_session_data, is_authenticated, get_current_user and
\* can_access_dashboard return None, False, None and False, as for an id
\* that was never issued.
SessionValidIffReadable ==
    /\ ret.op = "is_authenticated" =>
          /\ ret.val = (/\ Has(Consulted(ret.pre), ret.arg)
                        /\ Consulted(ret.pre)[ret.arg].authenticated
                        /\ ret.pre.now <= Consulted(ret.pre)[ret.arg].expires_at)
          /\ (\E st \in {ret.pre.mem, ret.pre.gcs} :
                 Has(st, ret.arg) /\ ret.pre.now > st[ret.arg].expires_at)
                => ret.val = FALSE
    /\ (ret.op = "get_session_data" /\ ret.pre = TRUE) => ret.val = None
    /\ (ret.op = "get_current_user" /\ ret.pre = TRUE) => ret.val = None
    /\ (ret.op = "can_access_dashboard" /\ ret.pre.expired) => ret.val = FALSE

\* is_authenticated true at exactly expires_at.
ValidAtDeadline ==
    /\ ret.op = "is_authenticated"
    /\ ret.val = TRUE
    /\ Has(Consulted(ret.pre), ret.arg)
    /\ ret.pre.now = Consulted(ret.pre)[ret.arg].expires_at

SaveFollowsHierarchy ==
    (ret.op = "save_user" /\ ret.val.ok) =>
        \/ ret.pre.actor_role = "super_admin"
        \/ /\ ret.pre.actor_role = "admin"
           /\ ret.pre.target_role \in {"readonly", NoneStr}
           /\ users_cache.data[ret.arg].role = "readonly"

\* -------------------------------------------------------------------------
\* Properties of the audited operations (SpecAdmin)
\* -------------------------------------------------------------------------
StoreNow == IF gcs_configured THEN "ok" ELSE "nobucket"
\* what get_audit_log() and get_users_db() return when called in this state
AuditLogNow == get_audit_log(local_audit_log, gcs_audit_log, StoreNow).val
DirectoryNow == get_users_db(users_cache, shared, default_users, gcs_users, clock, StoreNow, StoreNow).val
AuditedOps == {"create_user", "edit_user", "soft_delete_user", "toggle_user_status"}

\* C16: a call of create_user, edit_user, soft_delete_user or
\* toggle_user_status returns success and changes the directory exactly
\* when it appends one entry to the log get_audit_log() returns, and a call
\* that leaves that log as it was leaves the directory as it was.
AuditMatchesChange ==
    [][ret'.op \in AuditedOps =>
          /\ (ret'.val.ok /\ DirectoryNow' # DirectoryNow)
                <=> (/\ Len(AuditLogNow') = Len(AuditLogNow) + 1
                     /\ SubSeq(AuditLogNow', 1, Len(AuditLogNow)) = AuditLogNow)
          /\ AuditLogNow' = AuditLogNow => DirectoryNow' = DirectoryNow]_vars

\* -------------------------------------------------------------------------
\* Properties of the audit log (SpecAudit)
\* -------------------------------------------------------------------------
IsSuffix(l, all) == Len(l) <= Len(all) /\ l = SubSeq(all, Len(all) - Len(l) + 1, Len(all))

\* C17: the list get_audit_log() returns has at most 500 entries and is a
\* suffix, in logging order, of all the entries log_audit_action has built.
RetainedIsSuffix ==
    ret.op = "get_audit_log" =>
        (Len(ret.val) <= AUDIT_LOG_KEEP /\ IsSuffix(ret.val, logged))

\* -------------------------------------------------------------------------
\* Properties of account roles (SpecGrant)
\* -------------------------------------------------------------------------
Unrestricted(users) == \A u \in DOMAIN users : users[u].role \in {"admin", "super_admin"} => (users[u].dashboards = DashAll /\ users[u].app_access = EmptyDict)

\* C18: every admin or super_admin record of the cached directory and of
\* the durable copy has dashboards 'all' and an empty app_access.
AdminsUnrestricted ==
    /\ users_cache.data # None => Unrestricted(users_cache.data)
    /\ gcs_users # None => Unrestricted(gcs_users)

\* update_user or edit_user, called with a dashboards list and an
\* app_access dict, has left viewer an admin
PromotedWithRestrictions ==
    /\ ret.op \in {"update_user", "edit_user"}
    /\ ret.arg = "viewer"
    /\ ret.val.ok
    /\ users_cache.data["viewer"].role = "admin"

\* -------------------------------------------------------------------------
\* Properties of two processes on one store (SpecPeers)
\* -------------------------------------------------------------------------
\* this process added 'ghost' and its save_users_to_gcs call succeeded
GhostPersisted == upd.valid /\ upd.saved /\ Has(upd.dir, "ghost")
\* the second process called get_users_db() with a cache 300 s old or older
PeerReadStale ==
    /\ ret.op = "peer_get_users_db"
    /\ ret.pre.populated
    /\ ret.pre.now - ret.pre.loaded_at.t >= USERS_CACHE_SECONDS

LaterSaveWins ==
    /\ (ret.op = "peer_update_users_db" /\ ret.pre.io = "ok") =>
           (gcs_users = ret.pre.users /\ DOMAIN gcs_users = DOMAIN peer_cache.data)
    /\ (ret.op = "add_user" /\ ret.val.ok /\ upd.saved) =>
           gcs_users = users_cache.data

\* both processes added their account from cached directories, the second
\* saved last, and the durable document has lost the first one's account
EarlierChangeLost ==
    /\ ret.op = "peer_update_users_db"
    /\ ret.pre.io = "ok"
    /\ GhostPersisted
    /\ Has(ret.pre.gcs, "ghost")
    /\ ~Has(gcs_users, "ghost")
    /\ Has(gcs_users, "guest")

\* -------------------------------------------------------------------------
\* Properties of sessions under directory changes (SpecFrame)
\* -------------------------------------------------------------------------
\* what get_current_user(s) returns when called in this state
CurrentUserNow(s) == get_current_user(memory_sessions, gcs_sessions, s, clock, StoreNow, StoreNow).val

\* C21: a call of add_user, create_user, update_user, edit_user,
\* delete_user, soft_delete_user or toggle_user_status leaves both session
\* stores as they were, and get_current_user(s) returns after it what it
\* returned before it.
AdminOpsKeepSessions ==
    [][(ret'.op \in AdminOps /\ ticks' = ticks) =>
          /\ memory_sessions' = memory_sessions
          /\ gcs_sessions' = gcs_sessions
          /\ \A s \in SessionIds : CurrentUserNow(s)' = CurrentUserNow(s)]_vars

\* get_current_user returned the readonly snapshot of a user whose directory
\* record is gone or has another role or other dashboards by now
SnapshotOutlivesRecord ==
    /\ ret.op = "get_current_user"
    /\ ret.val # None
    /\ ret.val.role = "readonly"
    /\ ret.val.dashboards = ViewerDashboards
    /\ users_cache.data # None
    /\ \/ ~Has(users_cache.data, ret.val.username)
       \/ users_cache.data[ret.val.username].role = "admin"
       \/ users_cache.data[ret.val.username].dashboards = GrantDashboards

\* -------------------------------------------------------------------------
\* Properties of the delete dialog (SpecDelete)
\* -------------------------------------------------------------------------
\* the four conditions of soft_delete_user on the directory it read
MayDelete(D, actor_id, actor_role, user_id) == Has(D, user_id) /\ D[user_id].role # "super_admin" /\ actor_role = "super_admin" /\ actor_id # user_id

\* C22: soft_delete_user returns success exactly when the target exists, is
\* no super_admin, the actor's role is super_admin and the actor is not the
\* target; then the target's is_active is false afterwards, and otherwise
\* the target's record is as it was.
SoftDeleteIff ==
    ret.op = "confirm_delete" =>
        LET D == ret.pre.dir
            may == MayDelete(D, ret.pre.actor_id, ret.pre.actor_role, ret.arg)
        IN  /\ ret.val.ok <=> may
            /\ may => users_cache.data[ret.arg].is_active = FALSE
            /\ (~may /\ Has(D, ret.arg)) => users_cache.data[ret.arg] = D[ret.arg]

\* a super_admin session refused the deletion of its own readonly account
SelfDeleteRefused ==
    /\ ret.op = "confirm_delete"
    /\ ~ret.val.ok
    /\ ret.val.msg = "Cannot delete yourself"
    /\ ret.pre.actor_id = ret.arg

\* -------------------------------------------------------------------------
\* Properties of the read path (SpecCache)
\* -------------------------------------------------------------------------
\* C23: a get_users_db() call made while the durable store holds a directory
\* document leaves that document as it is.
ReadKeepsDurable ==
    [][(ret'.op = "get_users_db" /\ ticks' = ticks /\ gcs_users # None) =>
          gcs_users' = gcs_users]_vars

\* C24: authenticate with the name and password of a record whose is_active
\* is False (in the directory its get_users_db() call returned) returns
\* (False, None, None).
InactiveCannotLogin ==
    (/\ ret.op = "authenticate"
     /\ Has(ret.pre.users, ret.pre.username)
     /\ ret.pre.users[ret.pre.username].password = ret.pre.password
     /\ DictGet(ret.pre.users[ret.pre.username], "is_active", TRUE) = FALSE)
    => (~ret.val.ok /\ ret.val.session_id = NoneStr /\ ret.val.expires_at = None)

\* -------------------------------------------------------------------------
\* Properties of the page callback (SpecPage)
\* -------------------------------------------------------------------------
DashboardLayouts == {"icarus_historical", "icarus_multi", "all_metrics_merged"}

\* C25: render_page returns the login layout for a session that is not
\* authenticated, and for an authenticated one a dashboard layout only if
\* can_access_dashboard is true for that dashboard, the landing layout
\* otherwise.
PageGated ==
    ret.op = "render_page" =>
        IF ret.pre.user = None THEN ret.val = "login"
        ELSE \/ ret.val = "landing"
             \/ /\ ret.val \in DashboardLayouts
                /\ can_access_dashboard(CurrentUserNow(ret.arg), ret.val)

\* -------------------------------------------------------------------------
\* Properties of the older user dialog (SpecModal)
\* -------------------------------------------------------------------------
\* C26: save_user_from_modal and execute_delete_user change the directory
\* only for a caller with a valid session whose role may manage the target
\* (can_manage_user) or, for a deletion, delete it (can_delete_user).
ModalGuarded ==
    (ret.op \in {"save_user_from_modal", "execute_delete_user"}
        /\ users_cache.data # ret.pre.dir) =>
        LET target_role == IF Has(ret.pre.dir, ret.arg) THEN ret.pre.dir[ret.arg].role
                           ELSE ret.pre.role
        IN  /\ ret.pre.caller # None
            /\ IF ret.op = "execute_delete_user"
               THEN can_delete_user(ret.pre.caller.role, ret.arg, target_role)
               ELSE can_manage_user(ret.pre.caller.role, target_role)

\* C27: while the directory last passed to update_users_db holds viewer
\* (add_user has added it and no delete_user has removed it since), the
\* directory get_users_db() returns holds viewer.
AddedUserStays ==
    (ret.op = "get_users_db" /\ upd.valid /\ Has(upd.dir, "viewer")) =>
        Has(ret.val, "viewer")

\* -------------------------------------------------------------------------
\* Properties of the default seed (SpecDir)
\* -------------------------------------------------------------------------
\* C28: DEFAULT_USERS keeps its two original records, and a get_users_db()
\* call that falls back to seeding returns exactly them.
SeedIsOriginal ==
    /\ default_users = DEFAULT_USERS
    /\ (ret.op = "get_users_db" /\ ret.pre.saves = 1) => ret.val = DEFAULT_USERS

\* -------------------------------------------------------------------------
\* Properties of the audit log at its cap (SpecCap)
\* -------------------------------------------------------------------------
Ids(l) == {l[i].id : i \in 1..Len(l)}

\* C29: the entries of the list get_audit_log() returns have pairwise
\* distinct ids.
AuditIdsDistinct ==
    ret.op = "get_audit_log" => Cardinality(Ids(ret.val)) = Len(ret.val)

\* -------------------------------------------------------------------------
\* Properties of the list of accessible dashboards (SpecAccess)
\* -------------------------------------------------------------------------
\* C30: for a valid session, a dashboard of the registry is in the list
\* get_accessible_dashboards returns exactly when can_access_dashboard is
\* true of it for the same user.
ListAgreesWithAccess ==
    (ret.op = "get_accessible_dashboards" /\ ret.pre.user # None)
        => \A i \in 1..Len(DASHBOARDS) :
              (DASHBOARDS[i] \in Range(ret.val))
                 <=> can_access_dashboard(ret.pre.user, DASHBOARDS[i].id)
====
